---- MODULE Spec2Model ----
\* Kitchen screen: the in-memory order store (pruneAndLimit, broadcast, the
\* /api/orders pull, the socket connection push, the 30 s cleanup timer) and the
\* per-user composition session driven by the Telegram bot handlers of
\* src/index.js (first variant, lines 1-657), and the screens that subscribe over
\* socket.io (the "orders:update" handler of the second variant's screen).
\* The first variant's screen polls instead: fetchOrders every 2 s, render on
\* every tick (lines 562-650).
\*
\* Time is Date.now() in milliseconds.  Texts are sequences of one-character
\* strings so that trim() and Number() are computed, not assumed.
EXTENDS Integers, Sequences, FiniteSets, TLC

VARIABLES
    now,        \* Date.now()
    orders,     \* the module-level `orders` array, head first
    nextId,     \* stands for crypto.randomUUID(): the next fresh id
    session,    \* user -> ctx.session.state (defined = FALSE until getState creates it)
    pending,    \* user -> number of "send" handlers suspended at `await ctx.reply`
    ack,        \* the acknowledgement the last step sent: to whom and what
    wire,       \* the snapshot the last step handed out: how, what, and the clock reading
    managerIds, \* MANAGER_IDS from the environment (empty = everybody allowed)
    sockets,    \* the sockets connected to io (the screens that subscribed)
    sent,       \* number of "orders:update" payloads the server has produced
    inbox,      \* socket -> the payloads emitted to it and not yet handled, oldest first
    seen,       \* socket -> the payload its "orders:update" handler stored last;
                \* for a polling screen, the response `orders = await r.json()` stored last
    status,     \* screen -> what fetchOrders wrote into the status line last
    admitted    \* history: every order object that has been in `orders`

vars == <<now, orders, nextId, session, pending, ack, wire, managerIds,
          sockets, sent, inbox, seen, status, admitted>>

\* the observers' side (who is subscribed, what travels to them, what they
\* hold) and the history of the store
pushVars == <<sockets, sent, inbox, seen, status, admitted>>

\* ---------------------------------------------------------------- constants
MsPerMinute == 60000
GraceMinutes == 5
Capacity == 10
DefaultPrep == 25
MinPrep == 1
MaxPrep == 240
GreenAbove == 25
OrangeAbove == 5

\* ---------------------------------------------------------------- bounds
MaxAdmit == 2           \* Spec: admissions
MaxMs == 1              \* Spec: 1 ms ticks within one minute
MaxAdmitSession == 1    \* SpecSession: admissions
MaxQty == 1             \* SpecSession: quantity of one cart entry
MaxAdmitCap == 12       \* SpecCap: admissions
MaxSameMs == 2          \* SpecCap: admissions at one clock reading
MaxAdmitPush == 1       \* SpecPush: admissions
MaxAdmitUsers == 1      \* SpecUsers: admissions
MaxAdmitScreen == 1     \* SpecScreen: admissions
MaxMsScreen == 1        \* SpecScreen: 1 ms ticks around a whole minute
MaxQtySecond == 1       \* SpecSecond: quantity of one cart entry
MaxQtyCart == 2         \* SpecCart: quantity of one cart entry
MaxAdmitCart == 1       \* SpecCart: admissions
MaxAdmitHistory == 12   \* SpecHistory: admissions
MaxAdmitLive == 2       \* SpecLive: admissions
MaxAdmitPrep == 1       \* SpecPrep: admissions
MaxAdmitTwice == 2      \* SpecTwice: admissions
MaxAdmitPoll == 1       \* SpecPoll: admissions
MaxInFlight == 2        \* SpecPoll: requests of one screen awaiting their response
MaxFetches == 2         \* SpecPoll: requests the server answers

Users == {1, 2}
Sockets == {1, 2}
Names == {"Borsch", "Hleb"}
CatKeys == {"soups"}
NoCat == "null"

\* ---------------------------------------------------------------- texts
BTN_NEW == <<"N">>

Digit == {"0", "1", "2", "3", "4", "5", "6", "7", "8", "9"}

DigitVal(c) ==
    CASE c = "0" -> 0 [] c = "1" -> 1 [] c = "2" -> 2 [] c = "3" -> 3
      [] c = "4" -> 4 [] c = "5" -> 5 [] c = "6" -> 6 [] c = "7" -> 7
      [] c = "8" -> 8 [] c = "9" -> 9

IsSpace(c) == c = " "

RECURSIVE TrimLeft(_)
TrimLeft(s) ==
    IF s # <<>> /\ IsSpace(Head(s)) THEN TrimLeft(Tail(s)) ELSE s

RECURSIVE TrimRight(_)
TrimRight(s) ==
    IF s # <<>> /\ IsSpace(s[Len(s)]) THEN TrimRight(SubSeq(s, 1, Len(s) - 1)) ELSE s

\* String.prototype.trim
Trim(s) == TrimRight(TrimLeft(s))

RECURSIVE DigitsValue(_)
DigitsValue(s) ==
    IF s = <<>> THEN 0 ELSE 10 * DigitsValue(SubSeq(s, 1, Len(s) - 1)) + DigitVal(s[Len(s)])

RECURSIVE Pow10(_)
Pow10(k) == IF k = 0 THEN 1 ELSE 10 * Pow10(k - 1)

AllDigits(s) == \A i \in 1..Len(s) : s[i] \in Digit

\* Number(txt) for the decimal literals [sign] digits [. digits]; the value is
\* num / den.  The empty string is 0; anything else outside the grammar is NaN.
ToNumber(txt) ==
    LET s    == Trim(txt)
        neg  == s # <<>> /\ Head(s) = "-"
        body == IF s # <<>> /\ Head(s) \in {"-", "+"} THEN Tail(s) ELSE s
        dots == {i \in 1..Len(body) : body[i] = "."}
        ip   == IF dots = {} THEN body ELSE SubSeq(body, 1, (CHOOSE i \in dots : TRUE) - 1)
        fp   == IF dots = {} THEN <<>>
                ELSE SubSeq(body, (CHOOSE i \in dots : TRUE) + 1, Len(body))
        ok   == /\ Cardinality(dots) <= 1
                /\ AllDigits(ip) /\ AllDigits(fp)
                /\ Len(ip) + Len(fp) > 0
    IN  IF s = <<>> THEN [finite |-> TRUE, num |-> 0, den |-> 1]
        ELSE IF ~ok THEN [finite |-> FALSE, num |-> 0, den |-> 1]
        ELSE [finite |-> TRUE,
              num |-> (IF neg THEN -1 ELSE 1) * (DigitsValue(ip) * Pow10(Len(fp)) + DigitsValue(fp)),
              den |-> Pow10(Len(fp))]

\* mutant: the lower limit is not tested
BadMinutes_NoLower(n) == ~n.finite \/ n.num > MaxPrep * n.den

\* mutant: the upper limit off by one
BadMinutes_OffByOne(n) == ~n.finite \/ n.num < MinPrep * n.den \/ n.num > (MaxPrep + 1) * n.den

\* !Number.isFinite(n) || n < 1 || n > 240
BadMinutes(n) == ~n.finite \/ n.num < MinPrep * n.den \/ n.num > MaxPrep * n.den

\* mutant: Math.round in place of Math.floor
Floor_Round(n) == (2 * n.num + n.den) \div (2 * n.den)

\* Math.floor(n) for n >= 0
Floor(n) == n.num \div n.den

\* ---------------------------------------------------------------- order store
\* mutant: an order is kept at the very reading it expires
RECURSIVE Filter_KeepDue(_, _)
Filter_KeepDue(s, t) ==
    IF s = <<>> THEN <<>>
    ELSE IF Head(s).expiresAt >= t THEN <<Head(s)>> \o Filter_KeepDue(Tail(s), t)
    ELSE Filter_KeepDue(Tail(s), t)

RECURSIVE Filter(_, _)
Filter(s, t) ==
    IF s = <<>> THEN <<>>
    ELSE IF Head(s).expiresAt > t THEN <<Head(s)>> \o Filter(Tail(s), t)
    ELSE Filter(Tail(s), t)

\* insert o into a list already sorted by createdAt descending, after every
\* element that does not compare greater (Array.prototype.sort is stable)
RECURSIVE InsertDesc(_, _)
InsertDesc(o, s) ==
    IF s = <<>> THEN <<o>>
    ELSE IF Head(s).createdAt >= o.createdAt THEN <<Head(s)>> \o InsertDesc(o, Tail(s))
    ELSE <<o>> \o s

RECURSIVE InsertAsc(_, _)
InsertAsc(o, s) ==
    IF s = <<>> THEN <<o>>
    ELSE IF Head(s).createdAt <= o.createdAt THEN <<Head(s)>> \o InsertAsc(o, Tail(s))
    ELSE <<o>> \o s

\* mutant: the comparator the other way round (a.createdAt - b.createdAt)
RECURSIVE SortAsc(_)
SortAsc(s) ==
    IF s = <<>> THEN <<>>
    ELSE InsertAsc(s[Len(s)], SortAsc(SubSeq(s, 1, Len(s) - 1)))

RECURSIVE Reverse(_)
Reverse(s) == IF s = <<>> THEN <<>> ELSE Append(Reverse(Tail(s)), Head(s))

\* mutant: sorted ascending and then reversed, which turns equal keys around
SortDesc_ViaReverse(s) == Reverse(SortAsc(s))

\* orders.sort((a, b) => b.createdAt - a.createdAt)
RECURSIVE SortDesc(_)
SortDesc(s) ==
    IF s = <<>> THEN <<>>
    ELSE InsertDesc(s[Len(s)], SortDesc(SubSeq(s, 1, Len(s) - 1)))

\* mutant: slice(-n), the last n instead of the first n
Slice_Last(s, n) == SubSeq(s, IF Len(s) < n THEN 1 ELSE Len(s) - n + 1, Len(s))

\* orders.slice(0, n)
Slice(s, n) == SubSeq(s, 1, IF Len(s) < n THEN Len(s) ELSE n)

\* mutant: the slice is forgotten
pruneAndLimit_NoSlice(os, t) == SortDesc(Filter(os, t))

\* pruneAndLimit() at clock reading t
\* mutant: the ten oldest are kept (the sort runs ascending before the cut)
pruneAndLimit_KeepOldest(os, t) == Reverse(Slice(SortAsc(Filter(os, t)), Capacity))

pruneAndLimit(os, t) == Slice(SortDesc(Filter(os, t)), Capacity)


\* ---------------------------------------------------------------- session
\* the object getState creates
InitialState ==
    [defined |-> TRUE, step |-> "idle", orderNo |-> <<>>, prepMinutes |-> DefaultPrep,
     cart |-> <<>>, cat |-> NoCat]

NoState == [InitialState EXCEPT !.defined = FALSE]

getState(u) == IF session[u].defined THEN session[u] ELSE InitialState

\* the draft every "new order" path writes
BlankDraft(step) ==
    [defined |-> TRUE, step |-> step, orderNo |-> <<>>, prepMinutes |-> DefaultPrep,
     cart |-> <<>>, cat |-> NoCat]

\* mutant: the check of MANAGER_IDS is skipped
isAllowed_Everybody(u) == TRUE

isAllowed(u) == managerIds = {} \/ u \in managerIds

CartKeys(cart) == {cart[i].name : i \in 1..Len(cart)}

CartQty(cart, name) ==
    IF name \in CartKeys(cart)
    THEN (cart[CHOOSE i \in 1..Len(cart) : cart[i].name = name]).qty
    ELSE 0

\* cart[name] = v : an existing key keeps its place, a new key goes last
CartSet(cart, name, v) ==
    IF name \in CartKeys(cart)
    THEN [i \in 1..Len(cart) |-> IF cart[i].name = name THEN [name |-> name, qty |-> v] ELSE cart[i]]
    ELSE Append(cart, [name |-> name, qty |-> v])

RECURSIVE CartDelete(_, _)
CartDelete(cart, name) ==
    IF cart = <<>> THEN <<>>
    ELSE IF Head(cart).name = name THEN CartDelete(Tail(cart), name)
    ELSE <<Head(cart)>> \o CartDelete(Tail(cart), name)

\* mutant: the quantity is set to 1 instead of counted up
CartAdd_SetOne(cart, name) == CartSet(cart, name, 1)

\* st.cart[name] = (st.cart[name] || 0) + 1
CartAdd(cart, name) == CartSet(cart, name, CartQty(cart, name) + 1)

\* mutant: the key is deleted only below 0 (v < 0), so a quantity of 0 stays
CartRem_KeepZero(cart, name) ==
    LET v == CartQty(cart, name) - 1
    IN  IF v < 0 THEN CartDelete(cart, name) ELSE CartSet(cart, name, v)

\* v = (st.cart[name] || 0) - 1; if (v <= 0) delete st.cart[name]; else st.cart[name] = v
CartRem(cart, name) ==
    LET v == CartQty(cart, name) - 1
    IN  IF v <= 0 THEN CartDelete(cart, name) ELSE CartSet(cart, name, v)

\* Object.entries(st.cart).map(([name, qty]) => ({ name, qty }))
CartItems(cart) == cart

\* Acknowledgements are told apart by kind: "Denied", the rejections "EmptyLabel",
\* "EmptyCart" and "InvalidDuration", "Prompt" (press "new order"), "Sent",
\* "SendFailed", "Notice" (any other plain text) and "View" (a re-rendered
\* composer or dish list).

\* the view an action re-renders: showDishes when a category is open, else showComposer
ViewAck(st) == "View"

NoAck == [to |-> 0, what |-> "none"]
NoWire == [via |-> "none", list |-> <<>>, at |-> 0]

Reply(u, what) == [to |-> u, what |-> what]

\* deny(ctx) returned true: only the notice goes out
Denied(u) ==
    /\ ack' = Reply(u, "Denied")
    /\ wire' = NoWire
    /\ UNCHANGED <<now, orders, nextId, session, pending, managerIds>>

\* mutant: one state object shared by all users instead of ctx.session.state
Touch_Shared(u, st, what) ==
    /\ session' = [v \in Users |-> st]
    /\ ack' = Reply(u, what)
    /\ wire' = NoWire
    /\ UNCHANGED <<now, orders, nextId, pending, managerIds>>

\* mutant: a stored order keeps a reference to the cart object it was built from
\* (items: st.cart), so a later change of that cart shows in the order
Touch_Aliased(u, st, what) ==
    /\ session' = [session EXCEPT ![u] = st]
    /\ orders' = [i \in 1..Len(orders) |->
                     IF orders[i].items = getState(u).cart
                     THEN [orders[i] EXCEPT !.items = st.cart]
                     ELSE orders[i]]
    /\ ack' = Reply(u, what)
    /\ wire' = NoWire
    /\ UNCHANGED <<now, nextId, pending, managerIds>>

\* a handler that only touches the sender's session and answers with `what`
Touch(u, st, what) ==
    /\ session' = [session EXCEPT ![u] = st]
    /\ ack' = Reply(u, what)
    /\ wire' = NoWire
    /\ UNCHANGED <<now, orders, nextId, pending, managerIds>>

\* ---------------------------------------------------------------- bot handlers
\* bot.start
Start(u) ==
    IF ~isAllowed(u) THEN Denied(u)
    ELSE Touch(u, [getState(u) EXCEPT !.step = "idle"], "Notice")

\* bot.hears(BTN_NEW)
HearsNew(u) ==
    IF ~isAllowed(u) THEN Denied(u)
    ELSE Touch(u, BlankDraft("entering_order"), "Notice")

\* mutant: the label is taken in every step but entering_time
Text_LabelAnywhere(u, raw) ==
    IF ~isAllowed(u) THEN Denied(u)
    ELSE LET st  == getState(u)
             txt == Trim(raw)
             n   == ToNumber(txt)
         IN  IF txt = BTN_NEW
             THEN /\ session' = [session EXCEPT ![u] = st]
                  /\ ack' = NoAck
                  /\ wire' = NoWire
                  /\ UNCHANGED <<now, orders, nextId, pending, managerIds>>
             ELSE IF st.step = "entering_time"
             THEN IF BadMinutes(n)
                  THEN Touch(u, st, "InvalidDuration")
                  ELSE Touch(u, [st EXCEPT !.prepMinutes = Floor(n), !.step = "selecting_items"],
                             "View")
             ELSE Touch(u, [st EXCEPT !.orderNo = txt, !.step = "entering_time"], "Notice")

\* bot.on("text")
Text(u, raw) ==
    IF ~isAllowed(u) THEN Denied(u)
    ELSE LET st  == getState(u)
             txt == Trim(raw)
             n   == ToNumber(txt)
         IN  IF txt = BTN_NEW
             THEN /\ session' = [session EXCEPT ![u] = st]
                  /\ ack' = NoAck
                  /\ wire' = NoWire
                  /\ UNCHANGED <<now, orders, nextId, pending, managerIds>>
             ELSE IF st.step = "entering_order"
             THEN Touch(u, [st EXCEPT !.orderNo = txt, !.step = "entering_time"], "Notice")
             ELSE IF st.step = "entering_time"
             THEN IF BadMinutes(n)
                  THEN Touch(u, st, "InvalidDuration")
                  ELSE Touch(u, [st EXCEPT !.prepMinutes = Floor(n), !.step = "selecting_items"],
                             "View")
             ELSE Touch(u, st, "Prompt")

\* bot.action("cats")
Cats(u) ==
    IF ~isAllowed(u) THEN Denied(u)
    ELSE Touch(u, getState(u), "View")

\* bot.action(/cat:(.+)/) -> showDishes sets st.cat
Cat(u, catKey) ==
    IF ~isAllowed(u) THEN Denied(u)
    ELSE Touch(u, [getState(u) EXCEPT !.cat = catKey], "View")

\* bot.action(/add:(.+)/)
Add(u, name) ==
    IF ~isAllowed(u) THEN Denied(u)
    ELSE LET st == getState(u)
         IN  Touch(u, [st EXCEPT !.cart = CartAdd(st.cart, name)], ViewAck(st))

\* mutant: clear starts the draft over (label and duration go too)
Clear_Reset(u) ==
    IF ~isAllowed(u) THEN Denied(u)
    ELSE LET st == getState(u)
         IN  Touch(u, BlankDraft(st.step), ViewAck(st))

\* bot.action("clear")
Clear(u) ==
    IF ~isAllowed(u) THEN Denied(u)
    ELSE LET st == getState(u)
         IN  Touch(u, [st EXCEPT !.cart = <<>>], ViewAck(st))

\* bot.action("edit")
Edit(u) ==
    IF ~isAllowed(u) THEN Denied(u)
    ELSE Touch(u, BlankDraft("entering_order"), "Notice")

\* bot.action("remove_mode")
RemoveMode(u) ==
    IF ~isAllowed(u) THEN Denied(u)
    ELSE LET st == getState(u)
         IN  Touch(u, st, "Notice")

\* bot.action("back_to_dishes")
BackToDishes(u) ==
    IF ~isAllowed(u) THEN Denied(u)
    ELSE LET st == getState(u)
         IN  Touch(u, st, ViewAck(st))

\* bot.action(/rem:(.+)/)
Rem(u, name) ==
    IF ~isAllowed(u) THEN Denied(u)
    ELSE LET st == getState(u)
         IN  Touch(u, [st EXCEPT !.cart = CartRem(st.cart, name)], "Notice")

\* ---- the same handlers as the second variant of the file registers them
\* (the bot behind the socket.io screen); its draft has `page` where the first
\* variant has `cat`, which stays NoCat here
\* bot.start, second variant
StartSecond(u) ==
    IF ~isAllowed(u) THEN Denied(u)
    ELSE Touch(u, BlankDraft("entering_order"), "Notice")

\* bot.command("new"), second variant
CommandNew(u) ==
    IF ~isAllowed(u) THEN Denied(u)
    ELSE Touch(u, BlankDraft("entering_order"), "Notice")

\* bot.on("text"), second variant
TextSecond(u, raw) ==
    IF ~isAllowed(u) THEN Denied(u)
    ELSE LET st  == getState(u)
             txt == Trim(raw)
             n   == ToNumber(txt)
         IN  IF txt # <<>> /\ Head(txt) = "/"
             THEN /\ session' = [session EXCEPT ![u] = st]
                  /\ ack' = NoAck
                  /\ wire' = NoWire
                  /\ UNCHANGED <<now, orders, nextId, pending, managerIds>>
             ELSE IF st.step = "entering_order"
             THEN Touch(u, [st EXCEPT !.orderNo = txt, !.step = "entering_time"], "Notice")
             ELSE IF st.step = "entering_time"
             THEN IF BadMinutes(n)
                  THEN Touch(u, st, "InvalidDuration")
                  ELSE Touch(u, [st EXCEPT !.prepMinutes = Floor(n), !.step = "selecting_items"],
                             "View")
             ELSE Touch(u, st, "Prompt")

\* bot.action(/add:(.+)/), second variant
AddSecond(u, name) ==
    IF ~isAllowed(u) THEN Denied(u)
    ELSE LET st == getState(u)
         IN  Touch(u, [st EXCEPT !.cart = CartAdd(st.cart, name)], "View")

\* bot.action("clear"), second variant
ClearSecond(u) ==
    IF ~isAllowed(u) THEN Denied(u)
    ELSE LET st == getState(u)
         IN  Touch(u, [st EXCEPT !.cart = <<>>], "View")

\* bot.action("edit"), second variant: only the step is written
EditSecond(u) ==
    IF ~isAllowed(u) THEN Denied(u)
    ELSE Touch(u, [getState(u) EXCEPT !.step = "entering_order"], "Notice")

\* mutant: the grace window counted from admission instead of from endsAt
NewOrder_GraceFromStart(st, id, createdAt) ==
    LET endsAt == createdAt + st.prepMinutes * MsPerMinute
    IN  [id |-> id, orderNo |-> Trim(st.orderNo), prepMinutes |-> st.prepMinutes,
         createdAt |-> createdAt, endsAt |-> endsAt,
         expiresAt |-> createdAt + GraceMinutes * MsPerMinute,
         items |-> CartItems(st.cart)]

\* the order object the send handler builds
NewOrder(st, id, createdAt) ==
    LET endsAt == createdAt + st.prepMinutes * MsPerMinute
    IN  [id |-> id, orderNo |-> Trim(st.orderNo), prepMinutes |-> st.prepMinutes,
         createdAt |-> createdAt, endsAt |-> endsAt,
         expiresAt |-> endsAt + GraceMinutes * MsPerMinute,
         items |-> CartItems(st.cart)]

\* mutant: the cart check is missing
SendVerdict_NoCartCheck(st) ==
    IF Trim(st.orderNo) = <<>> THEN "EmptyLabel" ELSE "ok"

\* which check of the send handler the draft fails, or "ok"
SendVerdict(st) ==
    IF Trim(st.orderNo) = <<>> THEN "EmptyLabel"
    ELSE IF CartItems(st.cart) = <<>> THEN "EmptyCart"
    ELSE "ok"

\* mutant: the order is inserted and the normalization is left for later
Admit_Deferred(os, o, t) == <<o>> \o os

\* orders.unshift(order); broadcast(io): the list the store holds afterwards
Admit(os, o, t) == pruneAndLimit(<<o>> \o os, t)

\* mutant: the draft is reset before the checks decide
SendReject_Reset(u, st, v) == Touch(u, BlankDraft("idle"), v)

\* the send handler found the draft wanting: it says why and returns
SendReject(u, st, v) == Touch(u, st, v)

\* mutant: the order is stored but broadcast(io) is never called
SendAdmit_NoBroadcast(u, st) ==
    /\ orders' = <<NewOrder(st, nextId, now)>> \o orders
    /\ nextId' = nextId + 1
    /\ wire' = NoWire
    /\ ack' = NoAck
    /\ session' = [session EXCEPT ![u] = st]
    /\ pending' = [pending EXCEPT ![u] = @ + 1]
    /\ UNCHANGED <<now, managerIds>>

\* the send handler admits the draft: orders.unshift, broadcast(io), and the
\* handler is suspended at `await ctx.reply(...)`
SendAdmit(u, st) ==
    /\ orders' = Admit(orders, NewOrder(st, nextId, now), now)
    /\ nextId' = nextId + 1
    /\ wire' = [via |-> "push", list |-> orders', at |-> now]
    /\ ack' = NoAck
    /\ session' = [session EXCEPT ![u] = st]
    /\ pending' = [pending EXCEPT ![u] = @ + 1]
    /\ UNCHANGED <<now, managerIds>>

\* bot.action("send") up to `await ctx.reply(...)`.  The reset of the draft runs
\* after the reply resolves.
Send(u) ==
    IF ~isAllowed(u) THEN Denied(u)
    ELSE LET st == getState(u)
             v  == SendVerdict(st)
         IN  IF v # "ok" THEN SendReject(u, st, v) ELSE SendAdmit(u, st)

\* bot.action("send") after `await ctx.reply(...)` resolved: reset to idle
SendReplied(u) ==
    /\ pending[u] > 0
    /\ pending' = [pending EXCEPT ![u] = @ - 1]
    /\ session' = [session EXCEPT ![u] = BlankDraft("idle")]
    /\ ack' = Reply(u, "Sent")
    /\ wire' = NoWire
    /\ UNCHANGED <<now, orders, nextId, managerIds>>

\* `await ctx.reply(...)` rejected: the handler ends there, bot.catch logs it
SendReplyFailed(u) ==
    /\ pending[u] > 0
    /\ pending' = [pending EXCEPT ![u] = @ - 1]
    /\ ack' = Reply(u, "SendFailed")
    /\ wire' = NoWire
    /\ UNCHANGED <<now, orders, nextId, session, managerIds>>

\* ---------------------------------------------------------------- readers
\* app.get("/api/orders")
ApiOrders ==
    /\ orders' = pruneAndLimit(orders, now)
    /\ wire' = [via |-> "pull", list |-> orders', at |-> now]
    /\ ack' = NoAck
    /\ UNCHANGED <<now, nextId, session, pending, managerIds>>

\* mutant: the list goes out as it is, pruneAndLimit is not called
Connection_NoPrune ==
    /\ orders' = orders
    /\ wire' = [via |-> "connect", list |-> orders', at |-> now]
    /\ ack' = NoAck
    /\ UNCHANGED <<now, nextId, session, pending, managerIds>>

\* io.on("connection")
Connection ==
    /\ orders' = pruneAndLimit(orders, now)
    /\ wire' = [via |-> "connect", list |-> orders', at |-> now]
    /\ ack' = NoAck
    /\ UNCHANGED <<now, nextId, session, pending, managerIds>>

\* mutant: the timer emits after every run
Cleanup_AlwaysEmit ==
    /\ orders' = pruneAndLimit(orders, now)
    /\ wire' = [via |-> "push", list |-> orders', at |-> now]
    /\ ack' = NoAck
    /\ UNCHANGED <<now, nextId, session, pending, managerIds>>

\* mutant: the timer runs without calling pruneAndLimit
Cleanup_Idle ==
    /\ orders' = orders
    /\ wire' = NoWire
    /\ ack' = NoAck
    /\ UNCHANGED <<now, nextId, session, pending, managerIds>>

\* mutant: the timer puts an order that was cut off back once there is room
Cleanup_Restore ==
    LET back == {p \in admitted : p.expiresAt > now /\ ~(\E i \in 1..Len(orders) : orders[i] = p)}
        pool == IF back = {} THEN orders ELSE <<CHOOSE p \in back : TRUE>> \o orders
    IN  /\ orders' = pruneAndLimit(pool, now)
        /\ wire' = IF Len(orders') # Len(orders)
                   THEN [via |-> "push", list |-> orders', at |-> now]
                   ELSE NoWire
        /\ ack' = NoAck
        /\ UNCHANGED <<now, nextId, session, pending, managerIds>>

\* setInterval(..., 30_000)
Cleanup ==
    /\ orders' = pruneAndLimit(orders, now)
    /\ wire' = IF Len(orders') # Len(orders)
               THEN [via |-> "push", list |-> orders', at |-> now]
               ELSE NoWire
    /\ ack' = NoAck
    /\ UNCHANGED <<now, nextId, session, pending, managerIds>>

\* ---------------------------------------------------------------- screen
\* mutant: the remaining time taken in seconds (remainingMs / 1000)
timerClass_InSeconds(remainingMs) ==
    IF remainingMs > GreenAbove * 1000 THEN "tGreen"
    ELSE IF remainingMs > OrangeAbove * 1000 THEN "tOrange"
    ELSE "tRed"

\* mutant: the limits compared with >= (a boundary value goes to the upper class)
timerClass_AtOrAbove(remainingMs) ==
    IF remainingMs >= GreenAbove * MsPerMinute THEN "tGreen"
    ELSE IF remainingMs >= OrangeAbove * MsPerMinute THEN "tOrange"
    ELSE "tRed"

\* timerClass(remainingMs): mins = remainingMs / 60000, compared without dividing
timerClass(remainingMs) ==
    IF remainingMs > GreenAbove * MsPerMinute THEN "tGreen"
    ELSE IF remainingMs > OrangeAbove * MsPerMinute THEN "tOrange"
    ELSE "tRed"

Max0(x) == IF x > 0 THEN x ELSE 0

\* mutant: the list is shown as it came from the server, without the filter
renderActive_AsReceived(list, t) == Slice(SortDesc(list), Capacity)

\* mutant: a card is dropped as soon as its timer runs out (endsAt instead of expiresAt)
renderActive_UntilEnd(list, t) ==
    Slice(SortDesc(SelectSeq(list, LAMBDA o : o.endsAt > t)), Capacity)

\* render(): the cards shown at clock reading t from the list the screen holds
renderActive(list, t) == Slice(SortDesc(Filter(list, t)), Capacity)

\* render(): what one card shows
renderCard(o, t) ==
    LET remaining == o.endsAt - t
    IN  [late |-> remaining <= 0, cls |-> timerClass(Max0(remaining)),
         shownMs |-> Max0(remaining)]

\* fmt(ms): whole seconds, as minutes and seconds ("m:ss")
fmt(ms) ==
    LET s == Max0(ms \div 1000)
    IN  [m |-> s \div 60, ss |-> s % 60]

\* render(): the big timer of one card, "0:00" once the order is late
renderBig(o, t) ==
    LET remaining == o.endsAt - t
    IN  IF remaining <= 0 THEN [m |-> 0, ss |-> 0] ELSE fmt(remaining)

\* the clock moves
Tick(d) ==
    /\ now' = now + d
    /\ ack' = NoAck
    /\ wire' = NoWire
    /\ UNCHANGED <<orders, nextId, session, pending, managerIds>>

\* ---------------------------------------------------------------- push observers
\* the screen's `let orders = []` before any "orders:update" arrived
NoPayload == [no |-> 0, list |-> <<>>]

\* the payload number `sent + 1` carrying `list`
Payload(list) == [no |-> sent + 1, list |-> list]

\* no socket is tracked: the step leaves the push side alone
NoPush == UNCHANGED pushVars

\* io.emit("orders:update", orders): when the step pushed, one payload is queued
\* for every connected socket
Fanout ==
    IF wire'.via = "push"
    THEN /\ inbox' = [s \in Sockets |->
                        IF s \in sockets THEN Append(inbox[s], Payload(wire'.list))
                        ELSE inbox[s]]
         /\ sent' = sent + 1
         /\ UNCHANGED <<sockets, seen, status, admitted>>
    ELSE NoPush

\* io.on("connection") for socket s: pruneAndLimit, then socket.emit to s alone
Subscribe(s) ==
    /\ s \notin sockets
    /\ Connection
    /\ sockets' = sockets \cup {s}
    /\ inbox' = [inbox EXCEPT ![s] = <<Payload(wire'.list)>>]
    /\ sent' = sent + 1
    /\ UNCHANGED <<seen, status, admitted>>

\* mutant: the newest queued payload is handled first
Deliver_NewestFirst(s) ==
    /\ inbox[s] # <<>>
    /\ seen' = [seen EXCEPT ![s] = inbox[s][Len(inbox[s])]]
    /\ inbox' = [inbox EXCEPT ![s] = SubSeq(inbox[s], 1, Len(inbox[s]) - 1)]
    /\ ack' = NoAck
    /\ wire' = NoWire
    /\ UNCHANGED <<now, orders, nextId, session, pending, managerIds, sockets, sent,
                   status, admitted>>

\* socket.on("orders:update", list => { orders = list || []; render(); }) on the
\* screen of socket s: the oldest queued payload arrives and replaces the list
Deliver(s) ==
    /\ inbox[s] # <<>>
    /\ seen' = [seen EXCEPT ![s] = Head(inbox[s])]
    /\ inbox' = [inbox EXCEPT ![s] = Tail(inbox[s])]
    /\ ack' = NoAck
    /\ wire' = NoWire
    /\ UNCHANGED <<now, orders, nextId, session, pending, managerIds, sockets, sent,
                   status, admitted>>

\* ---- the polling screen (first variant): setInterval(fetchOrders, 2000) starts
\* a request whether or not an earlier one has come back; `inbox` holds the
\* responses under way to a screen and `seen` the one it stored last
\* fetchOrders on screen s up to the server's answer: GET /api/orders runs
\* pruneAndLimit and sends the list
FetchOrders(s) ==
    /\ ApiOrders
    /\ inbox' = [inbox EXCEPT ![s] = Append(@, Payload(wire'.list))]
    /\ sent' = sent + 1
    /\ UNCHANGED <<sockets, seen, status, admitted>>

\* the sequence q without its i-th element
Without(q, i) == SubSeq(q, 1, i - 1) \o SubSeq(q, i + 1, Len(q))

\* one of the responses under way arrives and parses: orders = await r.json().
\* Requests in flight at once travel separately, so any of them may be first.
FetchReturn(s, i) ==
    /\ i \in 1..Len(inbox[s])
    /\ seen' = [seen EXCEPT ![s] = inbox[s][i]]
    /\ inbox' = [inbox EXCEPT ![s] = Without(@, i)]
    /\ status' = [status EXCEPT ![s] = "orders"]
    /\ ack' = NoAck
    /\ wire' = NoWire
    /\ UNCHANGED <<now, orders, nextId, session, pending, managerIds, sockets, sent, admitted>>

\* mutant: the catch branch also empties the list
FetchError_Clears(s, i) ==
    /\ i \in 0..Len(inbox[s])
    /\ inbox' = [inbox EXCEPT ![s] = IF i = 0 THEN @ ELSE Without(@, i)]
    /\ status' = [status EXCEPT ![s] = "fetch error"]
    /\ seen' = [seen EXCEPT ![s] = NoPayload]
    /\ ack' = NoAck
    /\ wire' = NoWire
    /\ UNCHANGED <<now, orders, nextId, session, pending, managerIds, sockets, sent, admitted>>

\* fetch or r.json() throws: the request never got through (i = 0) or response
\* i is lost or unparsable; the catch branch writes the status line only
FetchError(s, i) ==
    /\ i \in 0..Len(inbox[s])
    /\ inbox' = [inbox EXCEPT ![s] = IF i = 0 THEN @ ELSE Without(@, i)]
    /\ status' = [status EXCEPT ![s] = "fetch error"]
    /\ seen' = seen
    /\ ack' = NoAck
    /\ wire' = NoWire
    /\ UNCHANGED <<now, orders, nextId, session, pending, managerIds, sockets, sent, admitted>>

\* the history takes in the order a send handler has just put into the store
\* (orders.unshift) and whatever the store holds after the step; the observers'
\* side is left alone
Logged ==
    /\ admitted' =
          admitted
          \cup {orders'[j] : j \in 1..Len(orders')}
          \cup {NewOrder(getState(u), nextId, now) :
                   u \in {v \in Users : nextId' > nextId /\ pending'[v] > pending[v]}}
    /\ UNCHANGED <<sockets, sent, inbox, seen, status>>

\* ---------------------------------------------------------------- specifications
InitWith(mgrs) ==
    /\ now = 0
    /\ orders = <<>>
    /\ nextId = 1
    /\ session = [u \in Users |-> NoState]
    /\ pending = [u \in Users |-> 0]
    /\ ack = NoAck
    /\ wire = NoWire
    /\ managerIds = mgrs
    /\ sockets = {}
    /\ sent = 0
    /\ inbox = [s \in Sockets |-> <<>>]
    /\ seen = [s \in Sockets |-> NoPayload]
    /\ status = [s \in Sockets |-> "loading"]
    /\ admitted = {}

\* user 1 is a manager, user 2 is not
Init == InitWith({1})

\* the users whose updates arrive in the specifications below
Acting == {1}

\* ---- Spec: the order store under the clock.  One manager composes with the
\* least the handlers allow, one send handler at a time; the clock moves by
\* 1 ms, 19 min and 6 min.
Minute == MsPerMinute
ClockSteps == {1, 19 * Minute, 6 * Minute}
MaxNow == 25 * Minute + 2
StoreTexts == { <<" ", "2", "0", " ">> }

Next ==
    \/ \E u \in Acting : HearsNew(u) /\ NoPush
    \/ \E u \in Acting, raw \in StoreTexts : Text(u, raw) /\ NoPush
    \/ \E u \in Acting :
          /\ CartQty(getState(u).cart, "Borsch") < 1
          /\ Add(u, "Borsch")
          /\ NoPush
    \/ \E u \in Acting :
          /\ SendVerdict(getState(u)) = "ok" => nextId <= MaxAdmit
          /\ pending[u] = 0
          /\ Send(u)
          /\ NoPush
    \/ \E u \in Acting : SendReplied(u) /\ NoPush
    \/ \E u \in Acting : SendReplyFailed(u) /\ NoPush
    \/ ApiOrders /\ NoPush
    \/ Connection /\ NoPush
    \/ Cleanup /\ NoPush
    \/ \E d \in ClockSteps :
          /\ now + d <= MaxNow
          /\ d = 1 => now % Minute < MaxMs
          /\ Tick(d)
          /\ NoPush

Spec == Init /\ [][Next]_vars

\* ---- SpecSession: every bot handler for one manager, one admission, all within
\* one clock reading
Texts ==
    { <<" ", "2", "4", "0", " ">>, <<"2", "4", "1">>, <<"0">>, <<" ">>, <<"N", " ">> }

NextSession ==
    \/ \E u \in Acting : Start(u) /\ NoPush
    \/ \E u \in Acting : HearsNew(u) /\ NoPush
    \/ \E u \in Acting, raw \in Texts : Text(u, raw) /\ NoPush
    \/ \E u \in Acting : Cats(u) /\ NoPush
    \/ \E u \in Acting, c \in CatKeys : Cat(u, c) /\ NoPush
    \/ \E u \in Acting :
          /\ CartQty(getState(u).cart, "Borsch") < MaxQty
          /\ Add(u, "Borsch")
          /\ NoPush
    \/ \E u \in Acting : Clear(u) /\ NoPush
    \/ \E u \in Acting : Edit(u) /\ NoPush
    \/ \E u \in Acting : RemoveMode(u) /\ NoPush
    \/ \E u \in Acting : BackToDishes(u) /\ NoPush
    \/ \E u \in Acting : Rem(u, "Borsch") /\ NoPush
    \/ \E u \in Acting :
          /\ SendVerdict(getState(u)) = "ok" => nextId <= MaxAdmitSession
          /\ Send(u)
          /\ NoPush
    \/ \E u \in Acting : SendReplied(u) /\ NoPush
    \/ \E u \in Acting : SendReplyFailed(u) /\ NoPush

SpecSession == Init /\ [][NextSession]_vars

\* ---- SpecCap: the store filled past its capacity.  One manager sends the
\* same small draft from the composer again and again (a failed reply leaves
\* the draft in place); the clock moves 1 ms at a time, and only once something
\* was admitted at the current reading.
SameMs == Cardinality({i \in 1..Len(orders) : orders[i].createdAt = now})

NextCap ==
    \/ \E u \in Acting : HearsNew(u) /\ NoPush
    \/ \E u \in Acting, raw \in StoreTexts : Text(u, raw) /\ NoPush
    \/ \E u \in Acting :
          /\ CartQty(getState(u).cart, "Borsch") < 1
          /\ Add(u, "Borsch")
          /\ NoPush
    \/ \E u \in Acting :
          /\ SendVerdict(getState(u)) = "ok" => nextId <= MaxAdmitCap
          /\ SameMs < MaxSameMs
          /\ pending[u] = 0
          /\ getState(u).step = "selecting_items"
          /\ Send(u)
          /\ NoPush
    \/ \E u \in Acting : SendReplied(u) /\ NoPush
    \/ \E u \in Acting : SendReplyFailed(u) /\ NoPush
    \/ ApiOrders /\ NoPush
    \/ Connection /\ NoPush
    \/ Cleanup /\ NoPush
    \/ SameMs > 0 /\ Tick(1) /\ NoPush

SpecCap == Init /\ [][NextCap]_vars

\* ---- SpecPush: the store with subscribed screens.  One manager composes as in
\* Spec; sockets connect and stay; the clock jumps past the expiry of whatever
\* was admitted at the start.
PushClockSteps == {30 * Minute}
MaxNowPush == 30 * Minute

NextPush ==
    \/ \E u \in Acting : HearsNew(u) /\ Fanout
    \/ \E u \in Acting, raw \in StoreTexts : Text(u, raw) /\ Fanout
    \/ \E u \in Acting :
          /\ CartQty(getState(u).cart, "Borsch") < 1
          /\ Add(u, "Borsch")
          /\ Fanout
    \/ \E u \in Acting :
          /\ SendVerdict(getState(u)) = "ok" => nextId <= MaxAdmitPush
          /\ pending[u] = 0
          /\ Send(u)
          /\ Fanout
    \/ \E u \in Acting : SendReplied(u) /\ Fanout
    \/ \E u \in Acting : SendReplyFailed(u) /\ Fanout
    \/ ApiOrders /\ Fanout
    \/ \E s \in Sockets : Subscribe(s)
    \/ \E s \in Sockets : Deliver(s)
    \/ Cleanup /\ Fanout
    \/ \E d \in PushClockSteps :
          /\ now + d <= MaxNowPush
          /\ Tick(d)
          /\ Fanout

SpecPush == Init /\ [][NextPush]_vars

\* ---- SpecUsers: two users, every bot handler for both.  MANAGER_IDS is either
\* {1} (user 2 is denied) or empty (everybody is allowed).
ManagerSets == {{1}, {}}

InitUsers == \E mgrs \in ManagerSets : InitWith(mgrs)

NextUsers ==
    \/ \E u \in Users : Start(u) /\ NoPush
    \/ \E u \in Users : HearsNew(u) /\ NoPush
    \/ \E u \in Users, raw \in StoreTexts : Text(u, raw) /\ NoPush
    \/ \E u \in Users : Cats(u) /\ NoPush
    \/ \E u \in Users, c \in CatKeys : Cat(u, c) /\ NoPush
    \/ \E u \in Users :
          /\ CartQty(getState(u).cart, "Borsch") < 1
          /\ Add(u, "Borsch")
          /\ NoPush
    \/ \E u \in Users : Clear(u) /\ NoPush
    \/ \E u \in Users : Edit(u) /\ NoPush
    \/ \E u \in Users : RemoveMode(u) /\ NoPush
    \/ \E u \in Users : BackToDishes(u) /\ NoPush
    \/ \E u \in Users : Rem(u, "Borsch") /\ NoPush
    \/ \E u \in Users :
          /\ SendVerdict(getState(u)) = "ok" => nextId <= MaxAdmitUsers
          /\ Send(u)
          /\ NoPush
    \/ \E u \in Users : SendReplied(u) /\ NoPush
    \/ \E u \in Users : SendReplyFailed(u) /\ NoPush

SpecUsers == InitUsers /\ [][NextUsers]_vars

\* ---- SpecScreen: one order on the screen while the clock walks over the class
\* limits.  The manager labels the order "26" and sends it with 26 minutes or
\* with the default 25; the clock moves by 1 ms next to a whole minute, by a
\* minute less 1 ms from a whole minute, and by 20 and 5 minutes, once an order
\* was sent.
ScreenTexts == { <<"2", "6">> }
ScreenClockSteps == {1, Minute - 1, 20 * Minute, 5 * Minute}
MaxNowScreen == 26 * Minute + 1

NextScreen ==
    \/ \E u \in Acting : HearsNew(u) /\ NoPush
    \/ \E u \in Acting, raw \in ScreenTexts : Text(u, raw) /\ NoPush
    \/ \E u \in Acting :
          /\ CartQty(getState(u).cart, "Borsch") < 1
          /\ Add(u, "Borsch")
          /\ NoPush
    \/ \E u \in Acting :
          /\ SendVerdict(getState(u)) = "ok" => nextId <= MaxAdmitScreen
          /\ pending[u] = 0
          /\ Send(u)
          /\ NoPush
    \/ \E u \in Acting : SendReplied(u) /\ NoPush
    \/ \E u \in Acting : SendReplyFailed(u) /\ NoPush
    \/ ApiOrders /\ NoPush
    \/ \E d \in ScreenClockSteps :
          /\ now + d <= MaxNowScreen
          /\ d = 1 => (now + 1) % Minute <= MaxMsScreen
          /\ d = Minute - 1 => now % Minute = 0
          /\ nextId > 1
          /\ Tick(d)
          /\ NoPush

SpecScreen == Init /\ [][NextScreen]_vars

\* ---- SpecDuration: one manager answers the label and duration prompts with
\* whole numbers, decimal fractions, out-of-range numbers and non-numbers
DurationTexts ==
    { <<"2", "0", ".", "5">>, <<" ", "2", "4", "0", " ">>, <<"1">>, <<"0", ".", "5">>,
      <<"2", "4", "0", ".", "5">>, <<"2", "4", "1">>, <<"0">>, <<"G">>, <<" ">> }

NextDuration ==
    \/ \E u \in Acting : HearsNew(u) /\ NoPush
    \/ \E u \in Acting, raw \in DurationTexts : Text(u, raw) /\ NoPush
    \/ \E u \in Acting :
          /\ CartQty(getState(u).cart, "Borsch") < 1
          /\ Add(u, "Borsch")
          /\ NoPush
    \/ \E u \in Acting : Clear(u) /\ NoPush

SpecDuration == Init /\ [][NextDuration]_vars

\* ---- SpecSecond: the composing handlers of the second variant for one manager
SecondTexts == { <<" ", "2", "0", " ">>, <<"9">>, <<"/", "x">> }

NextSecond ==
    \/ \E u \in Acting : StartSecond(u) /\ NoPush
    \/ \E u \in Acting : CommandNew(u) /\ NoPush
    \/ \E u \in Acting, raw \in SecondTexts : TextSecond(u, raw) /\ NoPush
    \/ \E u \in Acting, name \in Names :
          /\ CartQty(getState(u).cart, name) < MaxQtySecond
          /\ AddSecond(u, name)
          /\ NoPush
    \/ \E u \in Acting : ClearSecond(u) /\ NoPush
    \/ \E u \in Acting : EditSecond(u) /\ NoPush

SpecSecond == Init /\ [][NextSecond]_vars

\* ---- SpecCart: one manager fills, thins out and empties a cart of two dishes,
\* before and after an admission; send is pressed in the composer only
NextCart ==
    \/ \E u \in Acting : HearsNew(u) /\ NoPush
    \/ \E u \in Acting, raw \in StoreTexts : Text(u, raw) /\ NoPush
    \/ \E u \in Acting, name \in Names :
          /\ CartQty(getState(u).cart, name) < MaxQtyCart
          /\ Add(u, name)
          /\ NoPush
    \/ \E u \in Acting, name \in Names : Rem(u, name) /\ NoPush
    \/ \E u \in Acting : Clear(u) /\ NoPush
    \/ \E u \in Acting :
          /\ SendVerdict(getState(u)) = "ok" => nextId <= MaxAdmitCart
          /\ pending[u] = 0
          /\ getState(u).step = "selecting_items"
          /\ Send(u)
          /\ NoPush
    \/ \E u \in Acting : SendReplied(u) /\ NoPush
    \/ \E u \in Acting : SendReplyFailed(u) /\ NoPush

SpecCart == Init /\ [][NextCart]_vars

\* ---- SpecHistory: the store with its history.  One manager sends a first
\* draft before giving a duration (25 minutes by default), then the same
\* 1-minute draft again and again, one admission per clock reading; the clock
\* moves by 1 ms and, once the store has overflowed, by 7 min, past the expiry
\* of the 1-minute orders.
HistoryTexts == { <<"1">> }
HistoryClockSteps == {1, 7 * Minute}
MaxNowHistory == 7 * Minute + 14

NextHistory ==
    \/ \E u \in Acting : HearsNew(u) /\ Logged
    \/ \E u \in Acting, raw \in HistoryTexts : Text(u, raw) /\ Logged
    \/ \E u \in Acting :
          /\ CartQty(getState(u).cart, "Borsch") < 1
          /\ Add(u, "Borsch")
          /\ Logged
    \/ \E u \in Acting :
          /\ SendVerdict(getState(u)) = "ok" => nextId <= MaxAdmitHistory
          /\ SameMs = 0
          /\ pending[u] = 0
          /\ getState(u).step = "selecting_items" \/ nextId = 1
          /\ Send(u)
          /\ Logged
    \/ \E u \in Acting : SendReplied(u) /\ Logged
    \/ \E u \in Acting : SendReplyFailed(u) /\ Logged
    \/ ApiOrders /\ Logged
    \/ Cleanup /\ Logged
    \/ \E d \in HistoryClockSteps :
          /\ now + d <= MaxNowHistory
          /\ d = 1 => SameMs > 0
          /\ d > 1 => nextId > Capacity + 1
          /\ Tick(d)
          /\ Logged

SpecHistory == Init /\ [][NextHistory]_vars

\* ---- SpecLive: the store left to its timer.  One manager sends 1-minute
\* orders early enough for the modelled clock to outlive them; the clock moves
\* by 3 min.  The clock keeps advancing and the setInterval timer keeps firing
\* (weak fairness); pulls, connections and sends may stop at any point.
LiveClockSteps == {3 * Minute}
MaxNowLive == 9 * Minute

LiveTick == \E d \in LiveClockSteps : now + d <= MaxNowLive /\ Tick(d) /\ NoPush

LiveCleanup == Cleanup /\ NoPush

NextLive ==
    \/ \E u \in Acting : HearsNew(u) /\ NoPush
    \/ \E u \in Acting, raw \in HistoryTexts : Text(u, raw) /\ NoPush
    \/ \E u \in Acting :
          /\ CartQty(getState(u).cart, "Borsch") < 1
          /\ Add(u, "Borsch")
          /\ NoPush
    \/ \E u \in Acting :
          /\ SendVerdict(getState(u)) = "ok" => nextId <= MaxAdmitLive
          /\ now + (getState(u).prepMinutes + GraceMinutes) * Minute <= MaxNowLive
          /\ pending[u] = 0
          /\ Send(u)
          /\ NoPush
    \/ \E u \in Acting : SendReplied(u) /\ NoPush
    \/ \E u \in Acting : SendReplyFailed(u) /\ NoPush
    \/ ApiOrders /\ NoPush
    \/ Connection /\ NoPush
    \/ LiveCleanup
    \/ LiveTick

SpecLive ==
    Init /\ [][NextLive]_vars /\ WF_vars(LiveTick) /\ WF_vars(LiveCleanup)

\* ---- SpecPrep: one manager answers the prompts as in SpecDuration and sends
\* the draft, from whatever step it is in
NextPrep ==
    \/ \E u \in Acting : HearsNew(u) /\ NoPush
    \/ \E u \in Acting, raw \in DurationTexts : Text(u, raw) /\ NoPush
    \/ \E u \in Acting :
          /\ CartQty(getState(u).cart, "Borsch") < 1
          /\ Add(u, "Borsch")
          /\ NoPush
    \/ \E u \in Acting :
          /\ SendVerdict(getState(u)) = "ok" => nextId <= MaxAdmitPrep
          /\ pending[u] = 0
          /\ Send(u)
          /\ NoPush
    \/ \E u \in Acting : SendReplied(u) /\ NoPush
    \/ \E u \in Acting : SendReplyFailed(u) /\ NoPush

SpecPrep == Init /\ [][NextPrep]_vars

\* ---- SpecTwice: one manager composes and presses send, also while an earlier
\* send handler is still suspended at its reply
NextTwice ==
    \/ \E u \in Acting : HearsNew(u) /\ NoPush
    \/ \E u \in Acting, raw \in StoreTexts : Text(u, raw) /\ NoPush
    \/ \E u \in Acting :
          /\ CartQty(getState(u).cart, "Borsch") < 1
          /\ Add(u, "Borsch")
          /\ NoPush
    \/ \E u \in Acting :
          /\ SendVerdict(getState(u)) = "ok" => nextId <= MaxAdmitTwice
          /\ Send(u)
          /\ NoPush
    \/ \E u \in Acting : SendReplied(u) /\ NoPush
    \/ \E u \in Acting : SendReplyFailed(u) /\ NoPush

SpecTwice == Init /\ [][NextTwice]_vars

\* ---- SpecPoll: the store with one polling screen.  One manager composes as
\* in Spec; the clock moves by 13 min, so that a 20-minute order expires while
\* the screen still holds it; the screen keeps up to MaxInFlight requests open.
Screens == {1}
PollClockSteps == {13 * Minute}
MaxNowPoll == 26 * Minute

NextPoll ==
    \/ \E u \in Acting : HearsNew(u) /\ NoPush
    \/ \E u \in Acting, raw \in StoreTexts : Text(u, raw) /\ NoPush
    \/ \E u \in Acting :
          /\ CartQty(getState(u).cart, "Borsch") < 1
          /\ Add(u, "Borsch")
          /\ NoPush
    \/ \E u \in Acting :
          /\ SendVerdict(getState(u)) = "ok" => nextId <= MaxAdmitPoll
          /\ pending[u] = 0
          /\ getState(u).step = "selecting_items"
          /\ Send(u)
          /\ NoPush
    \/ \E u \in Acting : SendReplied(u) /\ NoPush
    \/ \E u \in Acting : SendReplyFailed(u) /\ NoPush
    \/ \E s \in Screens :
          /\ Len(inbox[s]) < MaxInFlight
          /\ sent < MaxFetches
          /\ FetchOrders(s)
    \/ \E s \in Screens : \E i \in 1..MaxInFlight + 1 : FetchReturn(s, i)
    \/ \E s \in Screens : \E i \in 0..MaxInFlight + 1 : FetchError(s, i)
    \/ \E d \in PollClockSteps :
          /\ now + d <= MaxNowPoll
          /\ Tick(d)
          /\ NoPush

SpecPoll == Init /\ [][NextPoll]_vars

\* ================================================================ properties
Ids(list) == [i \in 1..Len(list) |-> list[i].id]

InList(o, list) == \E i \in 1..Len(list) : list[i] = o

\* what GET /api/orders would answer in this state
Snapshot == pruneAndLimit(orders, now)

\* C1 -- capacity: every snapshot handed out (answer to a pull, sent on
\* connection, pushed on change) holds at most 10 orders.
C1_Capacity == wire.via # "none" => Len(wire.list) <= 10

C1_Witness == wire.via = "pull" /\ Len(wire.list) = 10 /\ nextId >= 12

\* C2 -- expiry: every order of a snapshot handed out has expiresAt strictly
\* after the clock reading the snapshot was produced at; expiresAt = now is out.
C2_Expiry ==
    wire.via # "none" =>
        /\ wire.at = now
        /\ \A i \in 1..Len(wire.list) : wire.list[i].expiresAt > wire.at

\* two orders admitted; at 25 min sharp one of them is gone, which only an order
\* of 20 minutes admitted at 0 can be (expiresAt = now), and the other is there
C2_Witness ==
    /\ wire.via = "pull"
    /\ nextId = 3
    /\ wire.at = 1500000
    /\ Len(wire.list) = 1
    /\ wire.list[1].expiresAt > wire.at

\* C3 -- recency ordering: every snapshot handed out is sorted by createdAt,
\* non-increasing.
C3_Recency ==
    wire.via # "none" =>
        \A i \in 1..(Len(wire.list) - 1) : wire.list[i].createdAt >= wire.list[i + 1].createdAt

C3_Witness ==
    /\ wire.via = "push"
    /\ Len(wire.list) = 2
    /\ wire.list[1].createdAt > wire.list[2].createdAt

\* C4 -- after exactly 11 admissions, none of them expired, a snapshot holds the
\* 10 most recently admitted orders, newest first, and not the first one.
C4_TenMostRecent ==
    (wire.via # "none" /\ nextId = 12 /\ now < 360000) =>
        Ids(wire.list) = <<11, 10, 9, 8, 7, 6, 5, 4, 3, 2>>

\* the 11 were admitted at strictly increasing clock readings
C4_Witness ==
    /\ wire.via = "pull"
    /\ nextId = 12
    /\ Len(wire.list) = 10
    /\ \A i \in 1..9 : wire.list[i].createdAt > wire.list[i + 1].createdAt
    /\ wire.list[10].createdAt > 0

\* C5 -- a Submit of a draft with a non-empty label and an empty cart is
\* answered with EmptyCart and leaves the store as it was: the snapshot at the
\* same clock reading is the same before and after.
C5_EmptyCartStep(u) ==
    LET st == getState(u)
    IN  (isAllowed(u) /\ Send(u) /\ Trim(st.orderNo) # <<>> /\ st.cart = <<>>) =>
            /\ ack' = Reply(u, "EmptyCart")
            /\ now' = now
            /\ orders' = orders
            /\ nextId' = nextId
            /\ pruneAndLimit(orders', now') = pruneAndLimit(orders, now)
            /\ wire' = NoWire

C5_EmptyCartRejected == [][\A u \in Users : C5_EmptyCartStep(u)]_vars

C5_Witness ==
    /\ ack.what = "EmptyCart"
    /\ Trim(session[ack.to].orderNo) # <<>>
    /\ orders # <<>>

\* C6 -- a rejected Submit leaves the sender's step, label, prepMinutes and cart
\* exactly as they were; after EmptyCart in the composer, adding an item makes
\* the same draft pass the checks with the label and duration it had.
Rejections == {"EmptyLabel", "EmptyCart", "InvalidDuration"}

C6_RejectedStep(u) ==
    LET st  == getState(u)
        st1 == session'[u]
        fix == [st1 EXCEPT !.cart = CartAdd(st1.cart, "Borsch")]
    IN  (Send(u) /\ ack'.what \in Rejections) =>
            /\ st1.step = st.step
            /\ st1.orderNo = st.orderNo
            /\ st1.prepMinutes = st.prepMinutes
            /\ st1.cart = st.cart
            /\ pending' = pending
            /\ (ack'.what = "EmptyCart" =>
                    /\ SendVerdict(fix) = "ok"
                    /\ NewOrder(fix, nextId', now').orderNo = Trim(st.orderNo)
                    /\ NewOrder(fix, nextId', now').prepMinutes = st.prepMinutes)

C6_DraftKeptOnReject == [][\A u \in Users : C6_RejectedStep(u)]_vars

\* rejected in the composer, with a duration that is not the default
C6_Witness ==
    /\ ack.what = "EmptyCart"
    /\ session[ack.to].step = "selecting_items"
    /\ session[ack.to].prepMinutes = 240
    /\ Trim(session[ack.to].orderNo) # <<>>

\* C7 -- no draft with a duration outside 1..240 is ever admitted: a Text of 0
\* or 241 in entering_time is answered with InvalidDuration and changes neither
\* the draft nor the store, so a Submit never meets such a draft; a draft with
\* duration 240, a label and an item is admitted with prepMinutes = 240.
C7_DurationStep(u) ==
    LET st == getState(u)
    IN  /\ (isAllowed(u) /\ Send(u) /\ st.prepMinutes \notin 1..240) =>
                (ack' = Reply(u, "InvalidDuration") /\ orders' = orders /\ nextId' = nextId)
        /\ (isAllowed(u) /\ Send(u) /\ st.prepMinutes = 240
                /\ Trim(st.orderNo) # <<>> /\ st.cart # <<>>) =>
                /\ nextId' = nextId + 1
                /\ orders' # <<>>
                /\ orders'[1].id = nextId
                /\ orders'[1].prepMinutes = 240
        /\ (\E raw \in {<<"0">>, <<"2", "4", "1">>} :
                isAllowed(u) /\ st.step = "entering_time" /\ Text(u, raw)) =>
                /\ ack' = Reply(u, "InvalidDuration")
                /\ session'[u] = st
                /\ orders' = orders
                /\ nextId' = nextId

C8_TimesStep ==
    /\ \A i \in 1..Len(orders') :
          /\ orders'[i].endsAt = orders'[i].createdAt + orders'[i].prepMinutes * 60000
          /\ orders'[i].expiresAt = orders'[i].endsAt + 300000
    /\ nextId' # nextId =>
          \E i \in 1..Len(orders') : orders'[i].id = nextId /\ orders'[i].createdAt = now

C8_Times == [][C8_TimesStep]_vars

C8_Witness ==
    /\ wire.via = "push"
    /\ orders # <<>>
    /\ orders[1].prepMinutes = 20
    /\ orders[1].createdAt = 360001
    /\ orders[1].endsAt = 1560001
    /\ orders[1].expiresAt = 1860001

\* C9 -- an order admitted at t0 with prepMinutes = 20 has endsAt = t0 + 1200000
\* and expiresAt = t0 + 1500000; unless 10 newer orders displace it, it stays in
\* the store until it expires, so that at t0 + 19 min it is in the snapshot and
\* on the screen with 1 minute left, in red; no snapshot at or after
\* t0 + 1500001 contains it.
C9_State ==
    /\ \A i \in 1..Len(orders) :
          LET o == orders[i]
          IN  o.prepMinutes = 20 =>
                /\ o.endsAt = o.createdAt + 1200000
                /\ o.expiresAt = o.createdAt + 1500000
                /\ now = o.createdAt + 1140000 =>
                      /\ InList(o, Snapshot)
                      /\ InList(o, renderActive(Snapshot, now))
                      /\ renderCard(o, now) = [late |-> FALSE, cls |-> "tRed", shownMs |-> 60000]
    /\ \A list \in {Snapshot, wire.list} : \A i \in 1..Len(list) :
          ~(list[i].prepMinutes = 20 /\ now >= list[i].createdAt + 1500001)

C9_Step ==
    \A i \in 1..Len(orders) :
        LET o == orders[i]
        IN  (o.prepMinutes = 20 /\ now' < o.createdAt + 1500000 /\ nextId' - o.id <= 10)
                => InList(o, orders')

C9_Scenario == [](C9_State) /\ [][C9_Step]_vars

\* at 25 min + 1 ms the order of t0 = 0 is gone and the order of t0 = 6 min + 1 ms
\* is 19 minutes old
C9_Witness ==
    /\ wire.via = "pull"
    /\ nextId = 3
    /\ wire.at = 1500001
    /\ Len(wire.list) = 1
    /\ wire.list[1].prepMinutes = 20
    /\ wire.at = wire.list[1].createdAt + 1140000
    /\ renderCard(wire.list[1], wire.at).cls = "tRed"

\* C10 -- when the handler of a Submit that admitted an order ends, the sender's
\* session is idle with a blank draft (no label, 25 minutes, empty cart, no
\* category).
C10_IdleAfterSubmit ==
    [][\A u \in Users : pending'[u] < pending[u] => session'[u] = BlankDraft("idle")]_vars

\* C11 -- a send that admits an order produces exactly one "orders:update"
\* payload, the store as it is after the admission, queued once for every
\* connected socket; a send that is rejected produces none.
C11_SendStep(u) ==
    LET st == getState(u)
    IN  (isAllowed(u) /\ Send(u)) =>
            IF SendVerdict(st) = "ok"
            THEN /\ wire'.via = "push"
                 /\ wire'.list = orders'
                 /\ orders'[1].id = nextId
                 /\ sent' = sent + 1
                 /\ \A s \in sockets :
                        inbox'[s] = Append(inbox[s], [no |-> sent + 1, list |-> orders'])
            ELSE /\ wire'.via = "none"
                 /\ sent' = sent
                 /\ inbox' = inbox

C11_OneBroadcastPerSubmit == [][\A u \in Users : C11_SendStep(u)]_vars

C11_Witness ==
    /\ wire.via = "push"
    /\ orders # <<>>
    /\ orders[1].id = nextId - 1
    /\ \E s \in sockets :
          /\ Len(inbox[s]) = 2
          /\ inbox[s][2] = [no |-> sent, list |-> orders]

\* C16 -- a socket that connects is sent, as the first payload of its queue,
\* the store normalized at that moment: every unexpired order, none expired, at
\* most 10, newest first.
C16_SubscribeStep(s) ==
    Subscribe(s) =>
        LET p == inbox'[s][1]
        IN  /\ Len(inbox'[s]) = 1
            /\ seen[s] = NoPayload
            /\ p.list = orders'
            /\ Len(p.list) <= 10
            /\ \A i \in 1..Len(p.list) : p.list[i].expiresAt > now
            /\ \A i \in 1..Len(p.list) - 1 : p.list[i].createdAt >= p.list[i + 1].createdAt
            /\ \A i \in 1..Len(orders) : orders[i].expiresAt > now => InList(orders[i], p.list)

C16_SnapshotOnSubscribe == [][\A s \in Sockets : C16_SubscribeStep(s)]_vars

C16_Witness ==
    /\ wire.via = "connect"
    /\ wire.list # <<>>
    /\ \E s \in sockets : inbox[s] = <<[no |-> sent, list |-> wire.list]>> /\ seen[s] = NoPayload

\* C17 -- the 30 s timer emits exactly when its pruneAndLimit run changed which
\* orders the store holds, and then it emits the store as it is afterwards.
C17_CleanupStep ==
    Cleanup =>
        /\ (wire'.via = "push") <=> (Ids(orders') # Ids(orders))
        /\ wire'.via = "push" => wire'.list = orders'

C17_NotifyIffChanged == [][C17_CleanupStep]_vars

C17_Witness ==
    /\ wire.via = "push"
    /\ wire.list = <<>>
    /\ nextId > 1

\* C18 -- push observers end up with the store's snapshot: once the store is
\* empty and nothing is queued for a connected socket (no later step of the
\* server will emit to it unless a new order is sent), the list that socket
\* stored last is empty too.
C18_PushConsistency ==
    \A s \in sockets : (inbox[s] = <<>> /\ orders = <<>>) => seen[s].list = <<>>

\* C19 -- a socket never stores a payload produced before the one it stored last.
C19_MonotoneDelivery == [][\A s \in Sockets : seen'[s].no >= seen[s].no]_vars

C19_Witness ==
    \E s \in sockets :
        /\ seen[s].no >= 2
        /\ sent > seen[s].no
        /\ inbox[s] # <<>>

\* C12 -- a sender the access check refuses (MANAGER_IDS is set and does not
\* hold the sender) changes nothing: whatever update of theirs is handled, their
\* session and their suspended handlers stay as they were, and the step that
\* answers them answers with the denial notice only, leaving the store alone and
\* handing out no snapshot.
NotManager(u) == managerIds # {} /\ u \notin managerIds

C12_DeniedStep(u) ==
    NotManager(u) =>
        /\ session'[u] = session[u]
        /\ pending'[u] = pending[u]
        /\ ack'.to = u =>
              /\ ack'.what = "Denied"
              /\ orders' = orders
              /\ nextId' = nextId
              /\ session' = session
              /\ wire' = NoWire

C12_DeniedChangesNothing == [][\A u \in Users : C12_DeniedStep(u)]_vars

C12_Witness ==
    /\ managerIds = {1}
    /\ ack = Reply(2, "Denied")
    /\ session[2] = NoState
    /\ orders # <<>>
    /\ session[1].cart # <<>>

\* C13 -- draft isolation: a step of any handler run for user a (start, "new
\* order", text, the navigation actions, add, clear, edit, rem, send and its
\* completion) leaves the session of every other user b exactly as it was: no
\* step that changes b's session is a step of a handler run for a.
HandledFor(a) ==
    \/ Start(a) \/ HearsNew(a) \/ Cats(a) \/ Clear(a) \/ Edit(a)
    \/ RemoveMode(a) \/ BackToDishes(a) \/ Send(a) \/ SendReplied(a) \/ SendReplyFailed(a)
    \/ \E raw \in StoreTexts : Text(a, raw)
    \/ \E c \in CatKeys : Cat(a, c)
    \/ \E name \in Names : Add(a, name) \/ Rem(a, name)

C13_IsolationStep(a, b) ==
    (a # b /\ session'[b] # session[b]) => ~HandledFor(a)

C13_DraftIsolation == [][\A a \in Users, b \in Users : C13_IsolationStep(a, b)]_vars

C13_Witness ==
    /\ managerIds = {}
    /\ ack = Reply(1, "View")
    /\ session[1].cart # <<>>
    /\ session[1].orderNo = <<>>
    /\ session[2].defined
    /\ session[2].step = "selecting_items"
    /\ session[2].orderNo # <<>>
    /\ session[2].cart = <<>>

\* C14 -- pruneAndLimit is idempotent: in every state a second run at the same
\* clock reading returns what the first run returned, and after every step that
\* ran it (a send that admitted, a pull, a connection, the timer) one more run
\* at the same reading would leave the store, content and order, as it is.
C14_State ==
    LET once == pruneAndLimit(orders, now)
    IN  pruneAndLimit(once, now) = once

C14_Step ==
    (orders' # orders \/ wire'.via # "none") => pruneAndLimit(orders', now') = orders'

C14_Idempotent == [](C14_State) /\ [][C14_Step]_vars

C14_Witness ==
    /\ wire.via = "connect"
    /\ nextId >= 12
    /\ Len(orders) = 10
    /\ \E i \in 1..9 : orders[i].createdAt = orders[i + 1].createdAt

\* C15 -- admission is atomic: in every state a reader can meet, the store
\* holds at most 10 orders, newest first, each order once, and whatever a step
\* hands out (pull, connection, push) is the store as that step left it; a step
\* admits at most one order.
C15_State ==
    /\ Len(orders) <= 10
    /\ \A i \in 1..Len(orders) - 1 : orders[i].createdAt >= orders[i + 1].createdAt
    /\ \A i \in 1..Len(orders), j \in 1..Len(orders) : orders[i].id = orders[j].id => i = j
    /\ wire.via # "none" => wire.list = orders

C15_Step == nextId' \in {nextId, nextId + 1}

C20_Tier(remainingMs) ==
    IF remainingMs > 1500000 THEN "tGreen"
    ELSE IF remainingMs > 300000 THEN "tOrange"
    ELSE "tRed"

C20_UrgencyTier ==
    LET shown == renderActive(orders, now)
    IN  \A i \in 1..Len(shown) :
            LET remainingMs == IF shown[i].endsAt - now > 0 THEN shown[i].endsAt - now ELSE 0
                card == renderCard(shown[i], now)
            IN  /\ card.shownMs = remainingMs
                /\ card.cls = C20_Tier(remainingMs)
                /\ card.late <=> remainingMs = 0

C20_Witness ==
    /\ orders # <<>>
    /\ orders[1].prepMinutes = 26
    /\ orders[1].endsAt - now = 300000
    /\ renderCard(orders[1], now).cls = "tRed"

\* C21 -- display projection: for every order the screen holds and every clock
\* reading, the order is shown iff expiresAt > now, and its timer shows the
\* remaining time max(0, endsAt - now) (as minutes and whole seconds); in the
\* grace window (endsAt <= now < expiresAt) the order is still shown, with 0:00.
C21_DisplayProjection ==
    \A i \in 1..Len(orders) :
        LET o == orders[i]
            remainingMs == IF o.endsAt > now THEN o.endsAt - now ELSE 0
            visible == InList(o, renderActive(orders, now))
        IN  /\ visible <=> o.expiresAt > now
            /\ visible =>
                  /\ renderBig(o, now).m = remainingMs \div 60000
                  /\ renderBig(o, now).ss = (remainingMs \div 1000) % 60
            /\ (o.endsAt <= now /\ now < o.expiresAt) =>
                  /\ visible
                  /\ renderBig(o, now) = [m |-> 0, ss |-> 0]

\* two orders held, the older one in its grace window, the newer one running
C21_Witness ==
    /\ Len(orders) = 2
    /\ orders[2].endsAt <= now /\ now < orders[2].expiresAt
    /\ orders[1].endsAt > now
    /\ Len(renderActive(orders, now)) = 2

\* C22 -- an admitted order never changes while it is retained: an order found
\* by its id before and after a step has the same id, label, prepMinutes,
\* createdAt, endsAt, expiresAt and items; in particular add, rem, clear, start
\* and edit of the session that sent it leave the stored items alone.
C22_Step ==
    \A i \in 1..Len(orders) : \A j \in 1..Len(orders') :
        orders'[j].id = orders[i].id => orders'[j] = orders[i]

C22_OrderImmutable == [][C22_Step]_vars

\* the reply to the send failed, the draft stayed, and the manager has since
\* emptied the cart the stored order was built from
C22_Witness ==
    /\ Len(orders) = 1
    /\ pending[1] = 0
    /\ session[1].step = "selecting_items"
    /\ session[1].orderNo = orders[1].orderNo
    /\ session[1].cart = <<>>
    /\ orders[1].items # <<>>

\* C23 -- a transport failure does not touch the core's state: when the reply
\* that acknowledges an admitting send fails, the order stays in the store and
\* the sender's session is idle with a blank draft, as after a delivered reply.
C23_TransportFailure ==
    [][\A u \in Acting :
          (ack' = Reply(u, "SendFailed") /\ SendReplyFailed(u)) =>
              /\ orders' = orders
              /\ orders # <<>>
              /\ session'[u] = BlankDraft("idle")]_vars

C25_EditClearsDraft ==
    [][\A u \in Acting :
          (/\ session[u].step = "selecting_items"
           /\ session'[u].step = "entering_order"
           /\ (Edit(u) \/ EditSecond(u))) =>
              /\ session'[u].orderNo = <<>>
              /\ session'[u].prepMinutes = DefaultPrep
              /\ session'[u].cart = <<>>]_vars

\* C26 -- an order is admitted only by a send handled while the sender's step
\* is selecting_items; a send handled in idle, entering_order or entering_time
\* never admits an order.
C26_AdmitOnlyWhenSelecting ==
    [][nextId' > nextId =>
          \E u \in Acting : getState(u).step = "selecting_items" /\ Send(u)]_vars

\* C27 -- in entering_order a Text moves the session to entering_time only when
\* its trimmed payload is non-empty, and the label is then that trimmed payload;
\* so whenever the step is entering_time or selecting_items the label is
\* non-empty.
C27_LabelNonEmpty ==
    [](\A u \in Acting :
          getState(u).step \in {"entering_time", "selecting_items"} =>
              getState(u).orderNo # <<>>)
    /\ [][\A u \in Acting : \A raw \in Texts :
            (/\ getState(u).step = "entering_order"
             /\ session'[u].step = "entering_time"
             /\ Text(u, raw)) =>
                (Trim(raw) # <<>> /\ session'[u].orderNo = Trim(raw))]_vars

\* C28 -- add(name) in selecting_items sets cart[name] to its previous value
\* (0 if absent) plus exactly 1 and leaves every other cart entry, the label,
\* the duration and the step unchanged.
C28_AddStep(u, name) ==
    LET st == getState(u)
    IN  (ack' = Reply(u, "View") /\ st.step = "selecting_items" /\ Add(u, name)) =>
            /\ CartQty(session'[u].cart, name) = CartQty(st.cart, name) + 1
            /\ CartKeys(session'[u].cart) = CartKeys(st.cart) \cup {name}
            /\ \A other \in Names \ {name} :
                   CartQty(session'[u].cart, other) = CartQty(st.cart, other)
            /\ session'[u].orderNo = st.orderNo
            /\ session'[u].prepMinutes = st.prepMinutes
            /\ session'[u].step = "selecting_items"

C28_AddCountsOne == [][\A u \in Acting : \A name \in Names : C28_AddStep(u, name)]_vars

\* a second Borsch was added next to one Hleb
C28_Witness ==
    /\ session[1].step = "selecting_items"
    /\ session[1].cart = <<[name |-> "Hleb", qty |-> 1], [name |-> "Borsch", qty |-> 2]>>
    /\ ack = Reply(1, "View")

\* C29 -- rem(name) takes 1 off cart[name] and deletes the key when the result
\* is 0 or below, and changes nothing for an absent name; so in every reachable
\* session state every quantity in the cart is an integer >= 1.
C29_RemStep(u, name) ==
    LET st == getState(u)
        q  == CartQty(st.cart, name)
    IN  (ack' = Reply(u, "Notice") /\ session'[u].step = st.step /\ Rem(u, name)) =>
            /\ q >= 2 => /\ CartQty(session'[u].cart, name) = q - 1
                         /\ CartKeys(session'[u].cart) = CartKeys(st.cart)
            /\ q = 1 => CartKeys(session'[u].cart) = CartKeys(st.cart) \ {name}
            /\ q = 0 => session'[u].cart = st.cart
            /\ \A other \in Names \ {name} :
                   CartQty(session'[u].cart, other) = CartQty(st.cart, other)

C29_QuantitiesPositive ==
    [](\A u \in Acting : \A i \in 1..Len(session[u].cart) :
            session[u].cart[i].qty \in Nat \ {0})
    /\ [][\A u \in Acting : \A name \in Names : C29_RemStep(u, name)]_vars

\* one Borsch is left after a rem in the composer
C29_Witness ==
    /\ session[1].step = "selecting_items"
    /\ session[1].cart = <<[name |-> "Borsch", qty |-> 1]>>
    /\ ack = Reply(1, "Notice")

\* C30 -- clear empties the cart and leaves the step, the label and the duration
\* of the session, and the order store, unchanged.
C30_ClearStep(u) ==
    LET st == getState(u)
    IN  (ack' = Reply(u, "View") /\ Clear(u)) =>
            /\ session'[u].cart = <<>>
            /\ session'[u].step = st.step
            /\ session'[u].orderNo = st.orderNo
            /\ session'[u].prepMinutes = st.prepMinutes
            /\ orders' = orders
            /\ nextId' = nextId

C30_ClearOnlyCart == [][\A u \in Acting : C30_ClearStep(u)]_vars

\* the cart of a draft with label and duration was emptied while an order is
\* in the store
C30_Witness ==
    /\ orders # <<>>
    /\ pending[1] = 0
    /\ session[1].step = "selecting_items"
    /\ session[1].orderNo = <<"2", "0">>
    /\ session[1].prepMinutes = 20
    /\ session[1].cart = <<>>
    /\ ack = Reply(1, "View")

C32_RecencyPreference ==
    \A i \in 1..Len(Snapshot) : \A p \in admitted :
        (p.createdAt > Snapshot[i].createdAt /\ p.expiresAt > now) => InList(p, Snapshot)

\* the snapshot is full and an admitted, unexpired order is not in it
C32_Witness ==
    /\ Len(Snapshot) = Capacity
    /\ \E p \in admitted : p.expiresAt > now /\ ~InList(p, Snapshot)

\* C36 -- removal is permanent: an order that has left the store, by expiry or
\* by the cut at 10, is in no later store and no later snapshot, also when it
\* is still unexpired and the store holds fewer than 10 orders.
C36_Step ==
    \A p \in admitted :
        ~InList(p, orders) =>
            /\ ~InList(p, orders')
            /\ wire'.via # "none" => ~InList(p, wire'.list)

C36_RemovalPermanent == [][C36_Step]_vars

\* a pull is answered with fewer than 10 orders while an order that was cut
\* off is still unexpired
C36_Witness ==
    /\ wire.via = "pull"
    /\ Len(wire.list) < Capacity
    /\ \E p \in admitted : p.expiresAt > now /\ ~InList(p, orders)

\* C33 -- every admitted order is eventually removed from the store once its
\* expiresAt has passed, even if no pull, connection or send ever happens
\* again, as long as the clock advances and the cleanup timer keeps firing
\* (the 1-minute orders sent here expire 6 minutes after their admission).
C33_EventuallyRemoved ==
    \A k \in 1..MaxAdmitLive :
        (\E i \in 1..Len(orders) : orders[i].id = k)
            ~> (now >= 6 * Minute /\ \A i \in 1..Len(orders) : orders[i].id # k)

\* the timer has just emptied the store and told the screens
C33_Witness ==
    /\ nextId > 1
    /\ orders = <<>>
    /\ wire = [via |-> "push", list |-> <<>>, at |-> now]

\* C34 -- in every reachable session state prepMinutes is an integer in 1..240
\* (the default 25 or the whole part of an accepted input), so every order in
\* the store has prepMinutes in 1..240, although send itself tests no duration.
C34_PrepInRange ==
    /\ \A u \in Users : getState(u).prepMinutes \in 1..240
    /\ \A u \in Users : session[u].prepMinutes \in 1..240
    /\ \A i \in 1..Len(orders) : orders[i].prepMinutes \in 1..240

\* an order sent with the 20 minutes that "20.5" was accepted as
C34_Witness ==
    /\ orders # <<>>
    /\ orders[1].prepMinutes = 20
    /\ session[1].prepMinutes = 20

\* C35 -- a draft is admitted at most once: when a session presses send twice
\* with nothing else from it in between, the second send adds no order,
\* whether it is handled while the first is still awaiting its reply or after
\* that reply has ended.
C35_AfterAdmittingSend(u) ==
    \/ wire.via = "push" /\ pending[u] > 0
    \/ ack = Reply(u, "SendFailed")
    \/ ack = Reply(u, "Sent")

C35_AdmittedOnce ==
    [][\A u \in Acting :
          (C35_AfterAdmittingSend(u) /\ Send(u)) =>
              (nextId' = nextId /\ orders' = orders)]_vars

\* C37 -- the polling screen's view is monotonic: it never replaces the list it
\* holds with a snapshot the server produced before the one it holds, also
\* when two requests are in flight at once.
C37_MonotonePolling ==
    [][\A s \in Screens : seen'[s] # seen[s] => seen'[s].no > seen[s].no]_vars

\* C38 -- a failed poll (network error or unparsable response) leaves the list
\* the screen holds unchanged and only writes the status line; a poll that
\* succeeds replaces the list with the snapshot the server answered it with.
C38_Step(s) ==
    /\ \A i \in 0..Len(inbox[s]) :
          (status'[s] = "fetch error" /\ FetchError(s, i)) =>
              /\ seen'[s] = seen[s]
              /\ orders' = orders
    /\ (Len(inbox'[s]) > Len(inbox[s])) =>
          inbox'[s][Len(inbox'[s])].list = pruneAndLimit(orders, now)
    /\ \A i \in 1..Len(inbox[s]) :
          (status'[s] = "orders" /\ FetchReturn(s, i)) => seen'[s].list = inbox[s][i].list

C38_FailedPollKeepsList == [][\A s \in Screens : C38_Step(s)]_vars

\* a poll has failed while the screen holds an order
C38_Witness ==
    /\ status[1] = "fetch error"
    /\ seen[1].list # <<>>

\* C39 -- whatever list the screen holds, however stale, a render shows at most
\* 10 cards, newest createdAt first, none with expiresAt <= the clock reading
\* of that render; visibility and the timer are computed from that reading.
C39_RenderFromAnyList ==
    \A s \in Screens :
        LET shown == renderActive(seen[s].list, now)
        IN  /\ Len(shown) <= 10
            /\ \A i \in 1..(Len(shown) - 1) : shown[i].createdAt >= shown[i + 1].createdAt
            /\ \A i \in 1..Len(shown) :
                   /\ shown[i].expiresAt > now
                   /\ InList(shown[i], seen[s].list)
                   /\ renderBig(shown[i], now).m * 60 + renderBig(shown[i], now).ss
                        = (IF shown[i].endsAt > now THEN shown[i].endsAt - now ELSE 0) \div 1000
            /\ \A i \in 1..Len(seen[s].list) :
                   seen[s].list[i].expiresAt > now => InList(seen[s].list[i], shown)

\* the screen holds an order that has expired since the poll, and shows nothing
C39_Witness ==
    /\ seen[1].list # <<>>
    /\ renderActive(seen[1].list, now) = <<>>
====
